---- MODULE Spec2Model ----
(***************************************************************************)
(* StructuredText: extract (parser) and write (serializer) of              *)
(* src/StructuredText.py.                                                  *)
(*                                                                         *)
(* A Python str is modelled as a sequence of atoms.  An atom is one        *)
(* character ("A", ":", " ", "\n", "\"", ...) or, inside diagnostics       *)
(* only, one fixed fragment of a message template ("Duplicate key '").     *)
(* Fragments contain no whitespace at their ends and no newline, so        *)
(* strip/splitlines treat them as the characters they stand for.           *)
(* A dict is a sequence of [k, v] records with pairwise distinct keys, in  *)
(* insertion order.                                                        *)
(***************************************************************************)
EXTENDS Integers, Sequences, FiniteSets, TLC

(***************************************************************************)
(* Characters                                                              *)
(***************************************************************************)
NL == "\n"
Q  == "\""

\* Python's str whitespace, restricted to the characters the model uses.
Whitespace == {" ", NL, "\t"}

\* [a-zA-Z]
Alpha ==
  {"a","b","c","d","e","f","g","h","i","j","k","l","m",
   "n","o","p","q","r","s","t","u","v","w","x","y","z",
   "A","B","C","D","E","F","G","H","I","J","K","L","M",
   "N","O","P","Q","R","S","T","U","V","W","X","Y","Z"}

DigitChars == <<"0","1","2","3","4","5","6","7","8","9">>

\* [0-9]
Digit == {DigitChars[i] : i \in 1..10}

\* [a-zA-Z_] and [a-zA-Z0-9_] of key_value_pattern
KeyStart == Alpha \cup {"_"}
KeyChar  == Alpha \cup Digit \cup {"_"}

\* the prefix of the synthetic comment keys
CommentPrefix == <<"_","C","O","M","M","E","N","T","_">>

\* the multi-line delimiter """
QQQ == <<Q, Q, Q>>

\* the replacement text of line.replace('"""', '\\"\\"\\"')
EscapedQQQ == <<"\\", Q, "\\", Q, "\\", Q>>

(***************************************************************************)
(* str methods                                                             *)
(***************************************************************************)
RECURSIVE lstrip(_)
lstrip(s) ==
  IF s # <<>> /\ Head(s) \in Whitespace THEN lstrip(Tail(s)) ELSE s

RECURSIVE rstrip(_)
rstrip(s) ==
  IF s # <<>> /\ s[Len(s)] \in Whitespace
    THEN rstrip(SubSeq(s, 1, Len(s) - 1))
    ELSE s

strip(s) == lstrip(rstrip(s))

\* s.lstrip('#')
RECURSIVE lstripHash(_)
lstripHash(s) ==
  IF s # <<>> /\ Head(s) = "#" THEN lstripHash(Tail(s)) ELSE s

startswith(s, p) ==
  Len(s) >= Len(p) /\ SubSeq(s, 1, Len(p)) = p

\* sub in s
contains(s, sub) ==
  \E i \in 1..(Len(s) - Len(sub) + 1) : SubSeq(s, i, i + Len(sub) - 1) = sub

\* s.replace(old, new), old non-empty: leftmost non-overlapping occurrences
RECURSIVE replace(_, _, _)
replace(s, old, new) ==
  IF s = <<>> THEN <<>>
  ELSE IF startswith(s, old)
    THEN new \o replace(SubSeq(s, Len(old) + 1, Len(s)), old, new)
    ELSE <<Head(s)>> \o replace(Tail(s), old, new)

\* s[:n]
slice(s, n) == SubSeq(s, 1, IF Len(s) < n THEN Len(s) ELSE n)

\* s.splitlines(): the pieces between "\n"; no empty piece after a final "\n"
RECURSIVE splitlinesFrom(_, _)
splitlinesFrom(s, cur) ==
  IF s = <<>> THEN (IF cur = <<>> THEN <<>> ELSE <<cur>>)
  ELSE IF Head(s) = NL THEN <<cur>> \o splitlinesFrom(Tail(s), <<>>)
  ELSE splitlinesFrom(Tail(s), Append(cur, Head(s)))

splitlines(s) == splitlinesFrom(s, <<>>)

\* '\n' * n, ' ' * n
RECURSIVE repeat(_, _)
repeat(c, n) == IF n <= 0 THEN <<>> ELSE <<c>> \o repeat(c, n - 1)

\* str(n) of a non-negative int
RECURSIVE str(_)
str(n) ==
  IF n < 10 THEN <<DigitChars[n + 1]>>
  ELSE str(n \div 10) \o <<DigitChars[(n % 10) + 1]>>

(***************************************************************************)
(* dict operations (insertion-ordered)                                     *)
(***************************************************************************)
Keys(d) == {d[i].k : i \in 1..Len(d)}

Has(d, key) == key \in Keys(d)

Get(d, key) == d[CHOOSE i \in 1..Len(d) : d[i].k = key].v

\* d[key] = value: an existing key keeps its position
Put(d, key, value) ==
  IF Has(d, key)
    THEN [i \in 1..Len(d) |-> IF d[i].k = key THEN [k |-> key, v |-> value] ELSE d[i]]
    ELSE Append(d, [k |-> key, v |-> value])

\* del d[key]
Del(d, key) == SelectSeq(d, LAMBDA e : e.k # key)

(***************************************************************************)
(* Line classification (the tests of the loop body of extract)             *)
(***************************************************************************)
\* number of leading atoms of s that belong to S
RECURSIVE span(_, _)
span(s, S) == IF s # <<>> /\ Head(s) \in S THEN 1 + span(Tail(s), S) ELSE 0

\* number of leading atoms of s other than "\n": what (.*) can take
RECURSIVE spanNoNL(_)
spanNoNL(s) == IF s # <<>> /\ Head(s) # NL THEN 1 + spanNoNL(Tail(s)) ELSE 0

NoMatch == [ok |-> FALSE, name |-> <<>>, value |-> <<>>]

\* key_value_pattern.match(line) for ^([a-zA-Z_][a-zA-Z0-9_]*)\s*:\s*(.*)$
\* name is group(1), value is group(2); '.' takes no "\n" and '$' matches at
\* the end or before one final "\n".
key_value_pattern(line) ==
  IF line = <<>> \/ Head(line) \notin KeyStart THEN NoMatch
  ELSE
    LET n      == span(line, KeyChar)
        after  == lstrip(SubSeq(line, n + 1, Len(line)))
    IN  IF after = <<>> \/ Head(after) # ":" THEN NoMatch
        ELSE
          LET rest == lstrip(Tail(after))
              m    == spanNoNL(rest)
              tail == SubSeq(rest, m + 1, Len(rest))
          IN  IF tail = <<>> \/ tail = <<NL>>
                THEN [ok |-> TRUE, name |-> SubSeq(line, 1, n),
                      value |-> SubSeq(rest, 1, m)]
                ELSE NoMatch

\* faulty variant: whitespace before the delimiter is allowed too
IsTerminator_Strip(line) == strip(line) = QQQ

\* line.rstrip() == '"""'
IsTerminator(line) == rstrip(line) = QQQ

\* line.strip() == ''
IsBlank(line) == strip(line) = <<>>

\* line.lstrip().startswith('#')
IsComment(line) == startswith(lstrip(line), <<"#">>)

IsKeyValue(line) == key_value_pattern(line).ok

(***************************************************************************)
(* Diagnostics                                                             *)
(***************************************************************************)
\* the length kept by line[:40]
MsgLineLen == 40

FilePath == <<"f">>

\* source = f"file '{file_path}'" | 'list' | 'dictionary'
SourceName(type) ==
  IF type = "str" THEN <<"file '">> \o FilePath \o <<"'">>
  ELSE IF type = "list" THEN <<"list">>
  ELSE <<"dictionary">>

DuplicateMsg(name, source) ==
  <<"Duplicate key '">> \o name \o <<"' in ">> \o source

NoKeyMsg(line, source) ==
  <<"No variable key in '">> \o slice(line, MsgLineLen) \o <<"...' in ">> \o source

NoVariablesMsg(source) == <<"No key variables found in ">> \o source

NotFoundMsg(key, source) ==
  <<"Variable '">> \o key \o <<"' not found in ">> \o source \o <<".">>

NotDeletedMsg(key, source) ==
  <<"Variable '">> \o key \o <<"' could not be deleted from ">> \o source \o <<".">>

(***************************************************************************)
(* extract: the arguments are the record a, the locals the record s.       *)
(*   a: input_source, keyvar, delvars, quiet, strict, no_comments,         *)
(*      freetext_name                                                      *)
(*   s: source, lines, file_content, variables, FREETEXT, ERRORS,          *)
(*      current_var_name, current_var_value, multiline, comment_n,         *)
(*      idx (position of the for loop), stderr, pc, outcome, result        *)
(* keyvar None is the empty string: the code only tests its truth value.   *)
(* outcome is "none" while running, then "return" (result is the dict      *)
(* returned), "exit" (sys.exit(1)) or "raise" (an exception propagates).   *)
(***************************************************************************)
None == <<>>

Unbound == [bound |-> FALSE, text |-> <<>>]

Bound(text) == [bound |-> TRUE, text |-> text]

NoFile == [exists |-> FALSE, text |-> <<>>]

File(text) == [exists |-> TRUE, text |-> text]

\* sys.exit(1)
Exit(s) == [s EXCEPT !.pc = "done", !.outcome = "exit"]

\* an exception leaves extract
Raise(s) == [s EXCEPT !.pc = "done", !.outcome = "raise"]

\* return d
Return(s, d) == [s EXCEPT !.pc = "done", !.outcome = "return", !.result = d]

\* print(errmsg, file=sys.stderr) under the condition cond
Echo(s, cond, errmsg) ==
  IF cond THEN [s EXCEPT !.stderr = Append(@, errmsg)] ELSE s

\* ERRORS += errmsg + '\n'
AddError(s, errmsg) == [s EXCEPT !.ERRORS = @ \o errmsg \o <<NL>>]

\* the dict flattened to lines
RECURSIVE DictLines(_)
DictLines(d) ==
  IF d = <<>> THEN <<>>
  ELSE
    LET key == Head(d).k
        value == Head(d).v
    IN  (IF NL \in {value[i] : i \in 1..Len(value)}
           THEN <<key \o <<":">> \o QQQ>> \o splitlines(value) \o <<QQQ>>
           ELSE <<key \o <<":">> \o value>>)
        \o DictLines(Tail(d))

\* faulty variant: any free-text key name is accepted
FreetextNamePattern_Any(name) == TRUE

\* re.compile(r'^([a-zA-Z][a-zA-Z0-9_]*)$').match(freetext_name)
FreetextNamePattern(name) ==
  /\ name # <<>>
  /\ Head(name) \in Alpha
  /\ \A i \in 1..Len(name) : name[i] \in KeyChar

DefaultFreetextName == <<"_","F","R","E","E","T","E","X","T","_">>

Locals0 ==
  [source |-> <<>>, lines |-> <<>>, file_content |-> Unbound,
   variables |-> <<>>, FREETEXT |-> <<>>, ERRORS |-> <<>>,
   current_var_name |-> <<>>, current_var_value |-> <<>>,
   multiline |-> FALSE, comment_n |-> 0, idx |-> 1, stderr |-> <<>>,
   pc |-> "start", outcome |-> "none", result |-> <<>>]

\* freetext_name check and initialisation of the locals
CheckFreetextName(a, s) ==
  IF a.freetext_name # DefaultFreetextName /\ ~FreetextNamePattern(a.freetext_name)
    THEN Exit(s)
    ELSE [s EXCEPT !.pc = "loop"]

\* reading of input_source into lines; fs is the file at file_path
ReadSource(a, fs) ==
  LET type == a.input_source.type
      s0   == [Locals0 EXCEPT !.source = SourceName(type)]
  IN  IF type = "str"
        THEN IF ~fs.exists
               THEN Exit(Echo(s0, TRUE, <<"No such ">> \o s0.source))
               ELSE CheckFreetextName(a,
                      [s0 EXCEPT !.file_content = Bound(fs.text),
                                 !.lines = splitlines(fs.text)])
      ELSE IF type = "list"
        THEN CheckFreetextName(a, [s0 EXCEPT !.lines = a.input_source.value])
      ELSE IF type = "dict"
        THEN CheckFreetextName(a, [s0 EXCEPT !.lines = DictLines(a.input_source.value)])
      ELSE Exit(Echo(s0, TRUE, <<"Invalid type in 'input_source'">>))

Line(s) == s.lines[s.idx]

NextLine(s) == [s EXCEPT !.idx = @ + 1]

\* multiline and line.rstrip() == '"""'
OnTerminator(a, s) ==
  LET s1 == [s EXCEPT !.variables =
                 Put(@, s.current_var_name, strip(s.current_var_value))]
  IN  IF a.keyvar # None /\ a.keyvar = s.current_var_name
        THEN Return(s1, <<[k |-> a.keyvar, v |-> s.current_var_value]>>)
        ELSE NextLine([s1 EXCEPT !.current_var_name = <<>>,
                                 !.current_var_value = <<>>,
                                 !.multiline = FALSE])

\* faulty variant: blank lines inside a multi-line value are skipped
OnContinuation_SkipBlank(a, s) ==
  IF IsBlank(Line(s)) THEN NextLine(s)
  ELSE NextLine([s EXCEPT !.current_var_value = @ \o <<NL>> \o Line(s)])

\* multiline, any other line
OnContinuation(a, s) ==
  NextLine([s EXCEPT !.current_var_value = @ \o <<NL>> \o Line(s)])

\* faulty variant: a blank line takes a comment number
OnBlank_Counted(a, s) == NextLine([s EXCEPT !.comment_n = @ + 1])

\* blank line outside a multi-line value
OnBlank(a, s) == NextLine(s)

\* faulty variant: the comment counter is not kept
OnComment_NoCount(a, s) ==
  IF a.no_comments THEN NextLine(s)
  ELSE
    NextLine([s EXCEPT !.variables =
                Put(@, CommentPrefix \o str(s.comment_n + 1),
                    lstrip(lstripHash(lstrip(Line(s)))))])

\* faulty variant: comment lines are skipped while keyvar is set
OnComment_SkipUnderKeyvar(a, s) ==
  IF a.no_comments \/ a.keyvar # None THEN NextLine(s)
  ELSE
    LET line == lstrip(lstripHash(lstrip(Line(s))))
        n    == s.comment_n + 1
    IN  NextLine([s EXCEPT !.comment_n = n,
                           !.variables =
                             Put(@, CommentPrefix \o str(n), line)])

\* line starting with '#'
OnComment(a, s) ==
  IF a.no_comments THEN NextLine(s)
  ELSE
    LET line == lstrip(lstripHash(lstrip(Line(s))))
        n    == s.comment_n + 1
    IN  NextLine([s EXCEPT !.comment_n = n,
                           !.variables =
                             Put(@, CommentPrefix \o str(n), line)])

\* line matching key_value_pattern
OnKeyValue(a, s) ==
  LET match  == key_value_pattern(Line(s))
      name   == strip(match.name)
      value  == strip(match.value)
      dup    == Has(s.variables, name)
      errmsg == DuplicateMsg(name, s.source)
      s1     == IF dup
                  THEN Echo([s EXCEPT !.current_var_name = name],
                             ~a.quiet \/ a.strict, errmsg)
                  ELSE [s EXCEPT !.current_var_name = name]
  IN  IF dup /\ a.strict THEN Exit(s1)
      ELSE
        LET s2 == IF dup THEN AddError(s1, errmsg) ELSE s1
        IN  IF value = QQQ
              THEN NextLine([s2 EXCEPT !.current_var_value = <<>>,
                                       !.multiline = TRUE])
              ELSE
                LET s3 == [s2 EXCEPT !.current_var_value = value,
                                     !.variables = Put(@, name, value)]
                IN  IF a.keyvar # None /\ a.keyvar = name
                      THEN Return(s3, <<[k |-> a.keyvar, v |-> value]>>)
                      ELSE NextLine([s3 EXCEPT !.current_var_name = <<>>,
                                               !.current_var_value = <<>>])

\* faulty variant: strict mode does not stop at a line without a key
OnUnstructured_Lenient(a, s) ==
  LET errmsg == NoKeyMsg(Line(s), s.source)
      s1     == Echo(s, (~a.quiet \/ a.strict) /\ a.keyvar = None, errmsg)
  IN  NextLine([AddError(s1, errmsg) EXCEPT
                  !.FREETEXT = @ \o replace(Line(s), QQQ, EscapedQQQ) \o <<NL>>])

\* line without a key
OnUnstructured(a, s) ==
  LET errmsg == NoKeyMsg(Line(s), s.source)
      s1     == Echo(s, (~a.quiet \/ a.strict) /\ a.keyvar = None, errmsg)
  IN  IF a.strict THEN Exit(s1)
      ELSE NextLine([AddError(s1, errmsg) EXCEPT
                       !.FREETEXT = @ \o replace(Line(s), QQQ, EscapedQQQ) \o <<NL>>])

(***************************************************************************)
(* extract: after the loop                                                 *)
(***************************************************************************)
TextKey   == <<"_","T","E","X","T","_">>
ErrorsKey == <<"_","E","R","R","O","R","S","_">>

\* "Capture any trailing variable not terminated by three quotes"
TrailingCapture(a, s) ==
  IF s.current_var_name # <<>> /\ ~s.multiline
    THEN [s EXCEPT !.variables =
            Put(@, s.current_var_name, strip(s.current_var_value))]
    ELSE s

\* if not variables: the whole input becomes FREETEXT
NoVariables(a, s) ==
  IF s.variables # <<>> THEN s
  ELSE
    LET errmsg == NoVariablesMsg(s.source)
        s1     == Echo(s, ~a.quiet \/ a.strict, errmsg)
    IN  IF a.strict THEN Exit(s1)
        ELSE
          LET s2 == IF ~a.quiet THEN AddError(s1, errmsg) ELSE s1
          IN  IF s2.file_content.bound
                THEN [s2 EXCEPT !.FREETEXT = s2.file_content.text]
                ELSE Raise(s2)

\* if keyvar: only that key is returned, or {}
KeyvarFilter(a, s) ==
  IF a.keyvar = None THEN s
  ELSE IF Has(s.variables, a.keyvar)
    THEN Return(s, <<[k |-> a.keyvar, v |-> Get(s.variables, a.keyvar)]>>)
  ELSE
    LET errmsg == NotFoundMsg(a.keyvar, s.source)
        s1     == Echo(s, ~a.quiet \/ a.strict, errmsg)
    IN  IF a.strict THEN Exit(s1) ELSE Return(AddError(s1, errmsg), <<>>)

\* faulty variant: a key that cannot be deleted ends the call
DeleteVar_Abort(a, s, key) ==
  IF Has(s.variables, key)
    THEN [s EXCEPT !.variables = Del(@, key)]
    ELSE Exit(Echo(s, TRUE, NotDeletedMsg(key, s.source)))

\* one turn of "for key in delvars"
DeleteVar(a, s, key) ==
  IF Has(s.variables, key)
    THEN [s EXCEPT !.variables = Del(@, key)]
    ELSE
      LET errmsg == NotDeletedMsg(key, s.source)
      IN  AddError(Echo(s, ~a.quiet \/ a.strict, errmsg), errmsg)

RECURSIVE DeleteVarsFrom(_, _, _)
DeleteVarsFrom(a, s, i) ==
  IF i > Len(a.delvars) THEN s
  ELSE DeleteVarsFrom(a, DeleteVar(a, s, a.delvars[i]), i + 1)

\* faulty variant: the deny-list is ignored
DeleteVars_Skip(a, s) == s

\* if delvars: ...
DeleteVars(a, s) == DeleteVarsFrom(a, s, 1)

\* variables[key].strip() + '\n' + FREETEXT.strip(); del variables[key]
Prepend(s, key, delete) ==
  [s EXCEPT !.FREETEXT = strip(Get(s.variables, key)) \o <<NL>> \o strip(@),
            !.variables = IF delete THEN Del(@, key) ELSE @]

\* if FREETEXT.strip(): ...
MergeFreetext(a, s) ==
  IF strip(s.FREETEXT) = <<>> THEN s
  ELSE
    LET s1 == IF Has(s.variables, TextKey) THEN Prepend(s, TextKey, TRUE) ELSE s
        s2 == IF Has(s1.variables, DefaultFreetextName)
                THEN Prepend(s1, DefaultFreetextName, TRUE)
              ELSE IF Has(s1.variables, a.freetext_name)
                THEN Prepend(s1, a.freetext_name, FALSE)
              ELSE s1
    IN  [s2 EXCEPT !.variables = Put(@, a.freetext_name, strip(s2.FREETEXT))]

\* faulty variant: this run's ERRORS are appended to the _ERRORS_ of the input
StoreErrors_Append(a, s) ==
  LET old == IF Has(s.variables, ErrorsKey)
               THEN Get(s.variables, ErrorsKey) \o <<NL>> ELSE <<>>
      v1  == Del(s.variables, ErrorsKey)
      v2  == IF strip(old \o s.ERRORS) # <<>>
               THEN Put(v1, ErrorsKey, strip(old \o s.ERRORS))
               ELSE v1
  IN  Return([s EXCEPT !.variables = v2], v2)

\* _ERRORS_ of the input is dropped, this run's ERRORS stored; return variables
StoreErrors(a, s) ==
  LET v1 == IF Has(s.variables, ErrorsKey) THEN Del(s.variables, ErrorsKey)
            ELSE s.variables
      v2 == IF strip(s.ERRORS) # <<>> THEN Put(v1, ErrorsKey, strip(s.ERRORS))
            ELSE v1
  IN  Return([s EXCEPT !.variables = v2], v2)

Running(s) == s.pc # "done"

\* everything extract does once the for loop has ended
PostProcess(a, s) ==
  LET s1 == NoVariables(a, TrailingCapture(a, s))
      s2 == IF Running(s1) THEN KeyvarFilter(a, s1) ELSE s1
      s3 == IF Running(s2) THEN MergeFreetext(a, DeleteVars(a, s2)) ELSE s2
  IN  IF Running(s3) THEN StoreErrors(a, s3) ELSE s3

\* one turn of "for line in lines", or the code after the loop
Step(a, s) ==
  IF s.idx > Len(s.lines) THEN PostProcess(a, s)
  ELSE IF s.multiline
    THEN IF IsTerminator(Line(s)) THEN OnTerminator(a, s) ELSE OnContinuation(a, s)
  ELSE IF IsBlank(Line(s)) THEN OnBlank(a, s)
  ELSE IF IsComment(Line(s)) THEN OnComment(a, s)
  ELSE IF IsKeyValue(Line(s)) THEN OnKeyValue(a, s)
  ELSE OnUnstructured(a, s)

RECURSIVE Run(_, _)
Run(a, s) == IF Running(s) THEN Run(a, Step(a, s)) ELSE s

\* extract(input_source, keyvar=..., ...) with the file fs at file_path
extract(a, fs) == Run(a, ReadSource(a, fs))

(***************************************************************************)
(* write                                                                   *)
(***************************************************************************)
HasNewline(value) == \E i \in 1..Len(value) : value[i] = NL

\* faulty variant: the closing delimiter of a multi-line value is not printed
Render_Unclosed(key, value, sepc) ==
  IF HasNewline(value)
    THEN key \o <<":">> \o sepc \o QQQ \o <<NL>> \o value
  ELSE IF startswith(key, CommentPrefix) THEN <<"#">> \o sepc \o value
  ELSE key \o <<":">> \o sepc \o value

\* the text of one print call of write, without its end
Render(key, value, sepc) ==
  IF HasNewline(value)
    THEN key \o <<":">> \o sepc \o QQQ \o <<NL>>
         \o replace(value, QQQ \o <<NL>>, QQQ \o <<NL>>)
         \o <<NL>> \o QQQ
  ELSE IF startswith(key, CommentPrefix) THEN <<"#">> \o sepc \o value
  ELSE key \o <<":">> \o sepc \o value

\* faulty variant: the keyvar of write is ignored
RECURSIVE WriteFrom_All(_, _, _, _)
WriteFrom_All(d, kv, printend, sepc) ==
  IF d = <<>> THEN <<>>
  ELSE Render(Head(d).k, Head(d).v, sepc) \o printend
       \o WriteFrom_All(Tail(d), kv, printend, sepc)

RECURSIVE WriteFrom(_, _, _, _)
WriteFrom(d, kv, printend, sepc) ==
  IF d = <<>> THEN <<>>
  ELSE IF kv # None
    THEN IF kv # Head(d).k THEN WriteFrom(Tail(d), kv, printend, sepc)
         ELSE Render(Head(d).k, Head(d).v, sepc) \o printend
  ELSE Render(Head(d).k, Head(d).v, sepc) \o printend
       \o WriteFrom(Tail(d), kv, printend, sepc)

\* the text write(variables, keyvar=kv, lf=lf, sep=sep) prints
write(d, kv, lf, sep) == WriteFrom(d, kv, repeat(NL, lf), repeat(" ", sep))

\* the defaults lf=2, sep=1
DefaultLf  == 2
DefaultSep == 1

(***************************************************************************)
(* The state machine: one call of extract, on a list, on a dict, on a file *)
(* given as text, or on the file a call of write has produced.             *)
(***************************************************************************)
VARIABLES
  input_source, keyvar, delvars, quiet, strict, no_comments, freetext_name,
  source, lines, file_content, variables, FREETEXT, ERRORS,
  current_var_name, current_var_value, multiline, comment_n, idx,
  stderr, pc, outcome, result,
  fs,      \* the file at file_path
  doc,     \* the dict handed to write, when the file comes from write
  w_keyvar, lf, sep   \* the keyvar, lf and sep handed to write

args == <<input_source, keyvar, delvars, quiet, strict, no_comments, freetext_name>>

locals ==
  <<source, lines, file_content, variables, FREETEXT, ERRORS,
    current_var_name, current_var_value, multiline, comment_n, idx,
    stderr, pc, outcome, result>>

\* the arguments of write other than the dict
wargs == <<w_keyvar, lf, sep>>

vars == <<args, locals, fs, doc, wargs>>

Args ==
  [input_source |-> input_source, keyvar |-> keyvar, delvars |-> delvars,
   quiet |-> quiet, strict |-> strict, no_comments |-> no_comments,
   freetext_name |-> freetext_name]

Locals ==
  [source |-> source, lines |-> lines, file_content |-> file_content,
   variables |-> variables, FREETEXT |-> FREETEXT, ERRORS |-> ERRORS,
   current_var_name |-> current_var_name,
   current_var_value |-> current_var_value,
   multiline |-> multiline, comment_n |-> comment_n, idx |-> idx,
   stderr |-> stderr, pc |-> pc, outcome |-> outcome, result |-> result]

\* the locals become those of the record s
Becomes(s) ==
  /\ source' = s.source
  /\ lines' = s.lines
  /\ file_content' = s.file_content
  /\ variables' = s.variables
  /\ FREETEXT' = s.FREETEXT
  /\ ERRORS' = s.ERRORS
  /\ current_var_name' = s.current_var_name
  /\ current_var_value' = s.current_var_value
  /\ multiline' = s.multiline
  /\ comment_n' = s.comment_n
  /\ idx' = s.idx
  /\ stderr' = s.stderr
  /\ pc' = s.pc
  /\ outcome' = s.outcome
  /\ result' = s.result

(***************************************************************************)
(* Bounds and the inputs drawn                                             *)
(***************************************************************************)
MaxLines   == 3
MaxEntries == 2

KeyA == <<"A">>
KeyB == <<"B">>

LinePool ==
  { <<"A", ":", "1">>,
    <<"A", ":", " ", "2", " ">>,
    <<"A", ":", " ", Q, Q, Q>>,
    QQQ,
    <<" ", "x">>,
    <<>>,
    <<"#", " ", "c">> }

RECURSIVE SeqsUpTo(_, _)
SeqsUpTo(S, n) ==
  IF n = 0 THEN {<<>>}
  ELSE LET shorter == SeqsUpTo(S, n - 1)
       IN  shorter \cup {Append(q, x) : q \in {r \in shorter : Len(r) = n - 1}, x \in S}

LineSeqs == SeqsUpTo(LinePool, MaxLines)

\* the text of a file holding the given lines
RECURSIVE FileText(_)
FileText(ls) == IF ls = <<>> THEN <<>> ELSE Head(ls) \o <<NL>> \o FileText(Tail(ls))

DocKeys == {KeyA, CommentPrefix \o <<"1">>, CommentPrefix \o <<"2">>, ErrorsKey}

DocValues == { <<"1">>, <<" ", "2">>, <<"x", NL, NL, "y">>, <<>> }

DocEntries == {[k |-> key, v |-> value] : key \in DocKeys, value \in DocValues}

Docs ==
  {d \in SeqsUpTo(DocEntries, MaxEntries) :
     \A i, j \in 1..Len(d) : i # j => d[i].k # d[j].k}

KeyvarChoices == {None, KeyA, KeyB}

DelvarsChoices == {<<>>, <<KeyA>>, <<KeyB>>}

FreetextNames == {DefaultFreetextName, <<"F">>}

\* lf and sep handed to write: negative, zero, positive
LfChoices  == {0 - 1, 0, 1}
SepChoices == {0 - 1, 0, 2}

\* lines met less often: a delimiter with whitespace before it or after it, a
\* comment with two markers, declarations of the free-text keys, of _ERRORS_
\* and of _COMMENT_1, and a list element that holds a whole block
EdgePool ==
  { <<"A", ":", " ", Q, Q, Q>>,
    <<" ", Q, Q, Q>>,
    <<Q, Q, Q, " ">>,
    <<"#", "#", " ", "c", " ">>,
    <<"_","T","E","X","T","_", ":", " ", "t", " ">>,
    DefaultFreetextName \o <<":", " ", "f">>,
    <<"F", ":", " ", "g">>,
    ErrorsKey \o <<":", " ", "e">>,
    CommentPrefix \o <<"1", ":", " ", "z">>,
    <<"A", ":", " ", Q, Q, Q, NL, "x", NL, Q, Q, Q>> }

EdgeLineSeqs == SeqsUpTo(EdgePool, MaxLines)

EdgeDelvars ==
  { <<>>, <<DefaultFreetextName>>, <<ErrorsKey>>, <<KeyA, TextKey>> }

\* "1" is not a valid free-text key name
EdgeFreetextNames == {DefaultFreetextName, <<"F">>, <<"1">>}

\* a synthetic comment key as the requested key
EdgeKeyvar == CommentPrefix \o <<"1">>

InitLocals ==
  /\ source = Locals0.source
  /\ lines = Locals0.lines
  /\ file_content = Locals0.file_content
  /\ variables = Locals0.variables
  /\ FREETEXT = Locals0.FREETEXT
  /\ ERRORS = Locals0.ERRORS
  /\ current_var_name = Locals0.current_var_name
  /\ current_var_value = Locals0.current_var_value
  /\ multiline = Locals0.multiline
  /\ comment_n = Locals0.comment_n
  /\ idx = Locals0.idx
  /\ stderr = Locals0.stderr
  /\ outcome = Locals0.outcome
  /\ result = Locals0.result

InitOptions ==
  /\ keyvar \in KeyvarChoices
  /\ delvars \in DelvarsChoices
  /\ quiet \in BOOLEAN
  /\ strict \in BOOLEAN
  /\ no_comments \in BOOLEAN
  /\ freetext_name \in FreetextNames

StrSource == [type |-> "str", value |-> <<>>]

\* write is called with its defaults, or not at all
DefaultWriteOptions == w_keyvar = None /\ lf = DefaultLf /\ sep = DefaultSep

\* extract(list)
InitList ==
  /\ \E ls \in LineSeqs : input_source = [type |-> "list", value |-> ls]
  /\ fs = NoFile /\ doc = <<>> /\ pc = "start"
  /\ InitOptions /\ DefaultWriteOptions

\* extract('f'), the file holding some lines, or missing
InitFile ==
  /\ input_source = StrSource
  /\ fs \in {File(FileText(ls)) : ls \in LineSeqs} \cup {NoFile}
  /\ doc = <<>> /\ pc = "start"
  /\ InitOptions /\ DefaultWriteOptions

\* extract(dict); the lines of a dict with valid keys are all key/value lines
\* or lines of a block, so comments and free text are left at their defaults
InitDict ==
  /\ \E d \in Docs : input_source = [type |-> "dict", value |-> d]
  /\ fs = NoFile /\ doc = <<>> /\ pc = "start"
  /\ keyvar \in KeyvarChoices /\ delvars \in DelvarsChoices
  /\ quiet \in BOOLEAN /\ strict \in BOOLEAN
  /\ no_comments = FALSE /\ freetext_name = DefaultFreetextName
  /\ DefaultWriteOptions

\* write(doc, filename='f') followed by extract('f')
InitWrite ==
  /\ input_source = StrSource
  /\ fs = NoFile /\ doc \in Docs /\ pc = "write"
  /\ keyvar = None /\ delvars = <<>> /\ no_comments = FALSE
  /\ freetext_name = DefaultFreetextName
  /\ quiet \in BOOLEAN /\ strict \in BOOLEAN
  /\ DefaultWriteOptions

\* write(doc, keyvar=..., filename='f', lf=..., sep=...) followed by extract('f')
InitWriteOptions ==
  /\ input_source = StrSource
  /\ fs = NoFile /\ doc \in Docs /\ pc = "write"
  /\ keyvar = None /\ delvars = <<>> /\ no_comments = FALSE
  /\ freetext_name = DefaultFreetextName
  /\ quiet = FALSE /\ strict = FALSE
  /\ w_keyvar \in KeyvarChoices /\ lf \in LfChoices /\ sep \in SepChoices

\* extract(list) on the lines of EdgePool, with the deny-lists and free-text
\* key names of EdgeDelvars and EdgeFreetextNames, or with keyvar=EdgeKeyvar
InitEdgeList ==
  /\ \E ls \in EdgeLineSeqs : input_source = [type |-> "list", value |-> ls]
  /\ fs = NoFile /\ doc = <<>> /\ pc = "start"
  /\ quiet = FALSE
  /\ \/ /\ keyvar = None /\ strict = FALSE /\ no_comments = FALSE
        /\ \/ delvars \in EdgeDelvars /\ freetext_name = DefaultFreetextName
           \/ delvars = <<>> /\ freetext_name \in EdgeFreetextNames
     \/ /\ keyvar = EdgeKeyvar /\ strict \in BOOLEAN /\ no_comments \in BOOLEAN
        /\ delvars = <<>> /\ freetext_name = DefaultFreetextName
  /\ DefaultWriteOptions

Init ==
  /\ InitLocals
  /\ \/ InitFile
     \/ InitList
     \/ InitDict
     \/ InitWrite
     \/ InitWriteOptions
     \/ InitEdgeList

(***************************************************************************)
(* Actions                                                                 *)
(***************************************************************************)
\* write(doc, keyvar=w_keyvar, filename='f', lf=lf, sep=sep)
Write ==
  /\ pc = "write"
  /\ fs' = File(write(doc, w_keyvar, lf, sep))
  /\ pc' = "start"
  /\ UNCHANGED <<args, doc, wargs, source, lines, file_content, variables, FREETEXT,
                 ERRORS, current_var_name, current_var_value, multiline,
                 comment_n, idx, stderr, outcome, result>>

\* extract up to the for loop
Start ==
  /\ pc = "start"
  /\ Becomes(ReadSource(Args, fs))
  /\ UNCHANGED <<args, fs, doc, wargs>>

InLoop == pc = "loop" /\ idx <= Len(lines)

Terminator ==
  /\ InLoop /\ multiline /\ IsTerminator(lines[idx])
  /\ Becomes(OnTerminator(Args, Locals))
  /\ UNCHANGED <<args, fs, doc, wargs>>

Continuation ==
  /\ InLoop /\ multiline /\ ~IsTerminator(lines[idx])
  /\ Becomes(OnContinuation(Args, Locals))
  /\ UNCHANGED <<args, fs, doc, wargs>>

Blank ==
  /\ InLoop /\ ~multiline /\ IsBlank(lines[idx])
  /\ Becomes(OnBlank(Args, Locals))
  /\ UNCHANGED <<args, fs, doc, wargs>>

Comment ==
  /\ InLoop /\ ~multiline /\ ~IsBlank(lines[idx]) /\ IsComment(lines[idx])
  /\ Becomes(OnComment(Args, Locals))
  /\ UNCHANGED <<args, fs, doc, wargs>>

KeyValue ==
  /\ InLoop /\ ~multiline /\ ~IsBlank(lines[idx]) /\ ~IsComment(lines[idx])
  /\ IsKeyValue(lines[idx])
  /\ Becomes(OnKeyValue(Args, Locals))
  /\ UNCHANGED <<args, fs, doc, wargs>>

Unstructured ==
  /\ InLoop /\ ~multiline /\ ~IsBlank(lines[idx]) /\ ~IsComment(lines[idx])
  /\ ~IsKeyValue(lines[idx])
  /\ Becomes(OnUnstructured(Args, Locals))
  /\ UNCHANGED <<args, fs, doc, wargs>>

\* the code after the for loop
AfterLoop ==
  /\ pc = "loop" /\ idx > Len(lines)
  /\ Becomes(PostProcess(Args, Locals))
  /\ UNCHANGED <<args, fs, doc, wargs>>

Next ==
  \/ Write
  \/ Start
  \/ Terminator
  \/ Continuation
  \/ Blank
  \/ Comment
  \/ KeyValue
  \/ Unstructured
  \/ AfterLoop

Spec == Init /\ [][Next]_vars

(***************************************************************************)
(* The format as the claims read it, computed from the lines alone         *)
(***************************************************************************)
Done     == pc = "done"
Returned == Done /\ outcome = "return"

\* a key/value line whose value is the delimiter opens a multi-line block
Opens(l) ==
  /\ ~IsBlank(l) /\ ~IsComment(l) /\ IsKeyValue(l)
  /\ strip(key_value_pattern(l).value) = QQQ

\* line i of ls lies inside a multi-line block (InMultiline mode)
RECURSIVE InBlock(_, _)
InBlock(ls, i) ==
  IF i <= 1 THEN FALSE
  ELSE IF InBlock(ls, i - 1) THEN ~IsTerminator(ls[i - 1])
  ELSE Opens(ls[i - 1])

\* line i of ls, read in Normal mode, is neither blank, comment nor key/value
Malformed(ls, i) ==
  /\ ~IsBlank(ls[i]) /\ ~IsComment(ls[i]) /\ ~IsKeyValue(ls[i])
  /\ ~InBlock(ls, i)

\* line i of ls declares key (single-line, or opening a block)
Declares(ls, i, key) ==
  /\ ~IsBlank(ls[i]) /\ ~IsComment(ls[i]) /\ IsKeyValue(ls[i])
  /\ key_value_pattern(ls[i]).name = key
  /\ ~InBlock(ls, i)

Declarations(ls, key) == {i \in 1..Len(ls) : Declares(ls, i, key)}

\* the line that ends the declaration at line i: i itself, the terminator of
\* its block, or Len(ls) + 1 when the block is not terminated
DeclEnd(ls, i) ==
  IF ~Opens(ls[i]) THEN i
  ELSE IF \E j \in (i + 1)..Len(ls) : IsTerminator(ls[j])
    THEN CHOOSE j \in (i + 1)..Len(ls) :
           /\ IsTerminator(ls[j])
           /\ \A m \in (i + 1)..(j - 1) : ~IsTerminator(ls[m])
    ELSE Len(ls) + 1

\* the lines joined by single newlines
RECURSIVE JoinNL(_)
JoinNL(ls) ==
  IF ls = <<>> THEN <<>>
  ELSE IF Len(ls) = 1 THEN Head(ls)
  ELSE Head(ls) \o <<NL>> \o JoinNL(Tail(ls))

\* the continuation lines of the block opened at line i
Body(ls, i) == SubSeq(ls, i + 1, DeclEnd(ls, i) - 1)

\* the value the declaration at line i gives its key, trimmed
DeclValue(ls, i) ==
  IF Opens(ls[i]) THEN strip(JoinNL(Body(ls, i)))
  ELSE strip(key_value_pattern(ls[i]).value)

Max(S) == CHOOSE x \in S : \A y \in S : y <= x
Min(S) == CHOOSE x \in S : \A y \in S : x <= y

\* number of atoms of s equal to x
RECURSIVE Count(_, _)
Count(s, x) ==
  IF s = <<>> THEN 0
  ELSE (IF Head(s) = x THEN 1 ELSE 0) + Count(Tail(s), x)

\* the original content of the input: the file's text, or the list's lines
Content ==
  IF input_source.type = "str" THEN fs.text ELSE JoinNL(lines)

DefaultExtractOptions ==
  /\ keyvar = None /\ delvars = <<>> /\ ~quiet /\ ~strict /\ ~no_comments
  /\ freetext_name = DefaultFreetextName

\* the file at file_path is what write prints for doc under the defaults
FileFromWrite ==
  /\ input_source.type = "str" /\ fs.exists
  /\ fs.text = write(doc, None, DefaultLf, DefaultSep)

(***************************************************************************)
(* C1  Round trip                                                          *)
(***************************************************************************)
NoDelimiter(d) == \A i \in 1..Len(d) : ~contains(d[i].v, QQQ)

ValidKeys(d) ==
  \A i \in 1..Len(d) :
    /\ d[i].k # <<>>
    /\ Head(d[i].k) \in KeyStart
    /\ \A j \in 1..Len(d[i].k) : d[i].k[j] \in KeyChar

Trimmed(d) == \A i \in 1..Len(d) : strip(d[i].v) = d[i].v

\* entry i of d is one write renders as a comment line
WrittenAsComment(d, i) == startswith(d[i].k, CommentPrefix) /\ ~HasNewline(d[i].v)

\* the entries rendered as comment lines carry the keys _COMMENT_1, _COMMENT_2, ...
CommentsNumbered(d) ==
  \A i \in 1..Len(d) :
    WrittenAsComment(d, i) =>
      d[i].k = CommentPrefix \o str(Cardinality({j \in 1..i : WrittenAsComment(d, j)}))

\* C1 as stated: for every Document with valid keys and values without the
\* delimiter, extract of the text write produces returns the Document.
C1_RoundTrip ==
  (Done /\ FileFromWrite /\ DefaultExtractOptions
   /\ ValidKeys(doc) /\ NoDelimiter(doc))
    => (outcome = "return" /\ result = doc)

\* C1 amended: the round trip holds for every non-empty Document with valid
\* keys, none of them _ERRORS_, whose comment-rendered entries are keyed
\* _COMMENT_1, _COMMENT_2, ... in order, and whose values contain no delimiter
\* and no leading or trailing whitespace.
C1_RoundTripTrimmed ==
  (Done /\ FileFromWrite /\ DefaultExtractOptions
   /\ ValidKeys(doc) /\ NoDelimiter(doc)
   /\ doc # <<>> /\ Trimmed(doc) /\ ~Has(doc, ErrorsKey) /\ CommentsNumbered(doc))
    => (outcome = "return" /\ result = doc)

\* a two-entry Document with a multi-line value and a comment has gone round
C1_Witness ==
  /\ Returned /\ FileFromWrite /\ DefaultExtractOptions
  /\ Len(doc) = 2 /\ Trimmed(doc) /\ ~Has(doc, ErrorsKey) /\ CommentsNumbered(doc)
  /\ \E i \in 1..2 : HasNewline(doc[i].v)
  /\ \E i \in 1..2 : WrittenAsComment(doc, i)
  /\ result = doc

(***************************************************************************)
(* C2  Duplicate policy                                                    *)
(***************************************************************************)
DuplicateAtom == "Duplicate key '"

\* the keys the lines declare exactly twice
DeclaredTwice(ls) ==
  {key \in {key_value_pattern(ls[i]).name : i \in 1..Len(ls)} :
     Cardinality(Declarations(ls, key)) = 2}

\* C2: a key declared twice holds, in non-strict mode, the value of its last
\* declaration with exactly one duplicate-key diagnostic under _ERRORS_; in
\* strict mode extract aborts at the second declaration, returning nothing.
C2_DuplicatePolicy ==
  (Done /\ keyvar = None /\ delvars = <<>>) =>
    \A key \in DeclaredTwice(lines) :
      LET second == Max(Declarations(lines, key))
      IN  /\ (~strict /\ outcome = "return") =>
                /\ Has(result, key)
                /\ Get(result, key) = DeclValue(lines, second)
                /\ Has(result, ErrorsKey)
                /\ Count(Get(result, ErrorsKey), DuplicateAtom) = 1
          /\ strict => (outcome = "exit" /\ result = <<>> /\ idx <= second)

(***************************************************************************)
(* C3  Free-text aggregation                                               *)
(***************************************************************************)
NoEntries(ls) ==
  \A i \in 1..Len(ls) : ~IsComment(ls[i]) /\ ~IsKeyValue(ls[i])

SomeContent(ls) == \E i \in 1..Len(ls) : ~IsBlank(ls[i])

\* C3: an input without key/value and comment lines but with some non-blank
\* content gives, in non-strict mode, the one-entry mapping
\* {freetext_name: the content trimmed}.
C3_FreeTextOnly ==
  (Done /\ ~strict /\ keyvar = None /\ delvars = <<>>
   /\ input_source.type \in {"str", "list"}
   /\ (input_source.type = "str" => fs.exists)
   /\ NoEntries(lines) /\ SomeContent(lines))
    => (outcome = "return"
        /\ result = <<[k |-> freetext_name, v |-> strip(Content)]>>)

(***************************************************************************)
(* C4  Best-effort result                                                  *)
(***************************************************************************)
\* C4: in non-strict mode (valid free-text key name, readable source)
\* extract always returns a mapping, for a file, a list and a dict.
C4_AlwaysReturns ==
  (Done /\ ~strict /\ (input_source.type = "str" => fs.exists)
   /\ (freetext_name = DefaultFreetextName \/ FreetextNamePattern(freetext_name)))
    => outcome = "return"

(***************************************************************************)
(* C5  Allow-list early exit                                               *)
(***************************************************************************)
\* the declarations of key that are complete: single-line, or a terminated block
CompleteDeclarations(ls, key) ==
  {i \in Declarations(ls, key) : DeclEnd(ls, i) <= Len(ls)}

\* the arguments with the lines after line e replaced by tail
WithTail(e, tail) ==
  [Args EXCEPT !.input_source =
     IF @.type = "list" THEN [@ EXCEPT !.value = SubSeq(lines, 1, e) \o tail] ELSE @]

FileWithTail(e, tail) ==
  IF input_source.type = "str" THEN File(FileText(SubSeq(lines, 1, e) \o tail)) ELSE fs

Tails == SeqsUpTo(LinePool, 1)

\* whatever follows line e, extract ends as it has ended here
TailIndependent(e) ==
  \A tail \in Tails :
    LET other == extract(WithTail(e, tail), FileWithTail(e, tail))
    IN  other.outcome = outcome /\ other.result = result

\* C5: with keyvar=K and K declared, extract returns exactly {K: value of K}
\* unless it has aborted before the end of K's first declaration, and the
\* lines after that declaration have no effect on the outcome.
C5_EarlyExit ==
  (Done /\ keyvar # None /\ input_source.type \in {"str", "list"}
   /\ CompleteDeclarations(lines, keyvar) # {}) =>
    LET first == Min(CompleteDeclarations(lines, keyvar))
        e     == DeclEnd(lines, first)
    IN  ~(outcome = "exit" /\ idx < e) =>
          /\ outcome = "return"
          /\ result = <<[k |-> keyvar, v |-> DeclValue(lines, first)]>>
          /\ TailIndependent(e)

(***************************************************************************)
(* C6  Requested key missing                                               *)
(***************************************************************************)
\* C6: with keyvar=K and K never declared, non-strict extract returns the
\* empty mapping and strict extract aborts.
C6_KeyMissing ==
  (Done /\ keyvar # None /\ (input_source.type = "str" => fs.exists)
   /\ Declarations(lines, keyvar) = {})
    => /\ ~strict => (outcome = "return" /\ result = <<>>)
       /\ strict => (outcome = "exit" /\ result = <<>>)

(***************************************************************************)
(* C7  Multi-line exact body                                               *)
(***************************************************************************)
\* the line that opened the block line i lies in
Opener(ls, i) == Max({j \in 1..(i - 1) : ~InBlock(ls, j)})

\* the line the builder has read last
LastRead == IF pc = "loop" THEN idx - 1 ELSE idx

\* the builder has just read the terminator of a block: it goes on with the
\* next line, or it has returned at the terminator (keyvar found)
JustClosed ==
  /\ \/ pc = "loop" /\ idx > 1
     \/ Returned /\ idx <= Len(lines)
  /\ IsTerminator(lines[LastRead]) /\ InBlock(lines, LastRead)

ClosedKey == key_value_pattern(lines[Opener(lines, LastRead)]).name

ClosedBody == SubSeq(lines, Opener(lines, LastRead) + 1, LastRead - 1)

\* C7 as stated: once a block is terminated, its key holds the continuation
\* lines joined by single newlines, untrimmed.
C7_ExactBody ==
  JustClosed
    => (Has(variables, ClosedKey) /\ Get(variables, ClosedKey) = JoinNL(ClosedBody))

\* C7 amended: once a block is terminated, its key holds the continuation
\* lines joined by single newlines, with leading and trailing whitespace
\* (blank lines included) trimmed; blank lines between others are kept.
C7_TrimmedBody ==
  JustClosed
    => (Has(variables, ClosedKey)
        /\ Get(variables, ClosedKey) = strip(JoinNL(ClosedBody)))

\* a block of three continuation lines, the middle one blank, has been stored
C7_Witness ==
  /\ JustClosed
  /\ Len(ClosedBody) = 3 /\ ClosedBody[2] = <<>>
  /\ Get(variables, ClosedKey) = ClosedBody[1] \o <<NL, NL>> \o ClosedBody[3]

(***************************************************************************)
(* C8  Unterminated multi-line block                                       *)
(***************************************************************************)
\* the input ends inside a block
EndsInBlock(ls) == InBlock(ls, Len(ls) + 1)

PendingOpener(ls) == Opener(ls, Len(ls) + 1)

\* C8: when the input ends inside a block, the mapping returned holds the
\* pending key with the accumulated value, trimmed, and no error is recorded
\* for it.
C8_UnterminatedCommitted ==
  (Returned /\ keyvar = None /\ delvars = <<>> /\ EndsInBlock(lines)) =>
    LET key == key_value_pattern(lines[PendingOpener(lines)]).name
    IN  /\ Has(result, key)
        /\ Get(result, key) = strip(JoinNL(Body(lines, PendingOpener(lines))))

(***************************************************************************)
(* C9  Strict mode on a malformed line                                     *)
(***************************************************************************)
\* the builder has reached line i: it is reading it, or has read it
Reached(i) == pc \in {"loop", "done"} /\ i <= Len(lines) /\ idx >= i

\* C9: in strict mode the builder never gets past a malformed line it reaches
\* in Normal mode: it stops there by an abort, and no mapping is returned.
C9_StrictAbort ==
  strict =>
    \A i \in 1..Len(lines) :
      (Reached(i) /\ Malformed(lines, i)) =>
        /\ idx = i
        /\ Done => (outcome = "exit" /\ result = <<>>)

\* strict extract has aborted at a malformed line that other lines follow
C9_Witness ==
  /\ strict /\ Done /\ outcome = "exit"
  /\ idx < Len(lines) /\ Malformed(lines, idx)
  /\ \E i \in 1..(idx - 1) : Declares(lines, i, KeyA)

(***************************************************************************)
(* C10  Delete of an absent key                                            *)
(***************************************************************************)
NotDeletedAtom == "' could not be deleted from "

\* the delvars without entry j
Without(dv, j) == SubSeq(dv, 1, j - 1) \o SubSeq(dv, j + 1, Len(dv))

\* key is not a key of the parsed mapping: no complete declaration, no comment key
Absent(key) ==
  /\ CompleteDeclarations(lines, key) = {}
  /\ ~startswith(key, CommentPrefix)

\* d without its _ERRORS_ entry
OtherKeys(d) == Del(d, ErrorsKey)

\* C10: in non-strict mode without keyvar, a delvars entry naming a key absent
\* from the parsed mapping ends the call as the call without the entry ends;
\* when a mapping is returned one more diagnostic is recorded and every other
\* key has the same value at the same place.
C10_DeleteAbsent ==
  (Done /\ ~strict /\ keyvar = None) =>
    \A j \in 1..Len(delvars) :
      Absent(delvars[j]) =>
        LET other == extract([Args EXCEPT !.delvars = Without(delvars, j)], fs)
        IN  /\ outcome = other.outcome
            /\ outcome = "return" =>
                 /\ OtherKeys(result) = OtherKeys(other.result)
                 /\ Count(ERRORS, NotDeletedAtom) = Count(other.ERRORS, NotDeletedAtom) + 1
                 /\ Len(ERRORS) =
                      Len(other.ERRORS) + Len(NotDeletedMsg(delvars[j], source)) + 1
                 /\ Has(result, ErrorsKey)

\* a mapping with the key A has been returned although B could not be deleted
C10_Witness ==
  /\ Returned /\ ~strict /\ keyvar = None
  /\ delvars = <<KeyB>> /\ Absent(KeyB)
  /\ Has(result, KeyA)
  /\ Count(Get(result, ErrorsKey), NotDeletedAtom) = 1

(***************************************************************************)
(* C11  Deny-list removal                                                  *)
(***************************************************************************)
\* C11 as stated: whenever extract returns a mapping, no key listed in
\* delvars is a key of it.
C11_DenyListRemoval ==
  Returned => \A j \in 1..Len(delvars) : ~Has(result, delvars[j])

\* C11 amended: whenever extract, called without keyvar, returns a mapping, no
\* key listed in delvars is a key of it, the free-text key and _ERRORS_
\* excepted.
C11_DenyListNoKeyvar ==
  (Returned /\ keyvar = None) =>
    \A j \in 1..Len(delvars) :
      (delvars[j] # freetext_name /\ delvars[j] # ErrorsKey)
        => ~Has(result, delvars[j])

\* A and _TEXT_, both declared and both on the deny-list, are not returned
C11_Witness ==
  /\ Returned /\ keyvar = None /\ delvars = <<KeyA, TextKey>>
  /\ CompleteDeclarations(lines, KeyA) # {}
  /\ CompleteDeclarations(lines, TextKey) # {}
  /\ ~Has(result, KeyA) /\ ~Has(result, TextKey)

(***************************************************************************)
(* C12  Verbosity                                                          *)
(***************************************************************************)
\* the same call with the other setting of quiet
QuietFlipped == extract([Args EXCEPT !.quiet = ~quiet], fs)

\* C12: the call with the other setting of quiet returns the same mapping
\* (keys, values, _ERRORS_ included), or both calls abort.
C12_VerbosityNeutral ==
  Done =>
    /\ (outcome = "return") = (QuietFlipped.outcome = "return")
    /\ outcome = "return" => QuietFlipped.result = result

(***************************************************************************)
(* C13  _ERRORS_ is replaced                                               *)
(***************************************************************************)
\* s without its last atom
ButLast(s) == SubSeq(s, 1, Len(s) - 1)

\* the values the lines of the input declare under _ERRORS_
DeclaredErrors ==
  {DeclValue(lines, i) : i \in CompleteDeclarations(lines, ErrorsKey)}

\* C13: a mapping returned without keyvar has the key _ERRORS_ exactly when
\* this run has recorded a diagnostic; its value is the recorded diagnostics
\* joined by newlines in their order (with quiet off, the messages echoed, in
\* the order echoed), and never a value the input declares under _ERRORS_.
C13_ErrorsReplaced ==
  (Returned /\ keyvar = None) =>
    /\ Has(result, ErrorsKey) = (ERRORS # <<>>)
    /\ Has(result, ErrorsKey) =>
         /\ ERRORS = Get(result, ErrorsKey) \o <<NL>>
         /\ ~quiet => Get(result, ErrorsKey) = JoinNL(stderr)
         /\ Get(result, ErrorsKey) \notin DeclaredErrors
    /\ (~quiet /\ ~Has(result, ErrorsKey)) => stderr = <<>>

\* the input declares _ERRORS_, and the _ERRORS_ returned holds the two
\* diagnostics of this run instead
C13_Witness ==
  /\ Returned /\ keyvar = None /\ ~quiet
  /\ DeclaredErrors # {}
  /\ Has(result, ErrorsKey)
  /\ Len(stderr) = 2
  /\ Get(result, ErrorsKey) = stderr[1] \o <<NL>> \o stderr[2]

(***************************************************************************)
(* C14  Comment numbering                                                  *)
(***************************************************************************)
\* the comment lines met in Normal mode among the first m lines of ls
CommentLines(ls, m) ==
  {i \in 1..m : ~IsBlank(ls[i]) /\ IsComment(ls[i]) /\ ~InBlock(ls, i)}

\* the text that follows the '#' marker of a comment line: what comes after
\* the leading '#' characters, without the whitespace before it
CommentText(l) ==
  LET t == lstrip(l)
  IN  lstrip(SubSeq(t, span(t, {"#"}) + 1, Len(t)))

CommentKey(n) == CommentPrefix \o str(n)

\* no key/value line of ls declares a key starting with _COMMENT_
NoCommentKeyDeclared(ls) ==
  \A i \in 1..Len(ls) :
    IsKeyValue(ls[i]) => ~startswith(key_value_pattern(ls[i]).name, CommentPrefix)

\* C14: with comments not suppressed, the counter is the number of comment
\* lines met in Normal mode so far (lines inside a block are not counted, blank
\* lines and other entries change nothing), the n-th of them has just been
\* stored under _COMMENT_n with the text after its marker, and the mapping
\* returned holds each of them when nothing else names these keys.
C14_CommentNumbering ==
  ~no_comments =>
    /\ pc = "loop" =>
         /\ comment_n = Cardinality(CommentLines(lines, idx - 1))
         /\ (idx > 1 /\ (idx - 1) \in CommentLines(lines, idx - 1)) =>
              /\ Has(variables, CommentKey(comment_n))
              /\ Get(variables, CommentKey(comment_n)) = CommentText(lines[idx - 1])
    /\ (Returned /\ keyvar = None /\ delvars = <<>> /\ NoCommentKeyDeclared(lines)) =>
         \A i \in CommentLines(lines, Len(lines)) :
           LET n == Cardinality(CommentLines(lines, i))
           IN  /\ Has(result, CommentKey(n))
               /\ Get(result, CommentKey(n)) = CommentText(lines[i])

\* two comment lines with a blank line between them have been returned as
\* _COMMENT_1 and _COMMENT_2
C14_Witness ==
  /\ Returned /\ ~no_comments /\ keyvar = None
  /\ Len(lines) = 3
  /\ IsComment(lines[1]) /\ IsBlank(lines[2]) /\ IsComment(lines[3])
  /\ Has(result, CommentKey(2))
  /\ Get(result, CommentKey(2)) = <<"c">>

(***************************************************************************)
(* C15  List element holding a whole block                                 *)
(***************************************************************************)
\* the list element e is a whole multi-line block in one string:
\* opening line, body lines, terminator, separated by newlines
WholeBlock(e) ==
  LET parts == splitlines(e)
  IN  /\ HasNewline(e) /\ Len(parts) >= 2
      /\ Opens(parts[1])
      /\ IsTerminator(parts[Len(parts)])
      /\ \A m \in 2..(Len(parts) - 1) : ~IsTerminator(parts[m])

\* the list ls with element i split into its lines
SplitAt(ls, i) ==
  SubSeq(ls, 1, i - 1) \o splitlines(ls[i]) \o SubSeq(ls, i + 1, Len(ls))

\* C15: a list with an element, met in Normal mode, that holds a whole block
\* in one string gives what the list with that element split into its lines
\* gives.
C15_EmbeddedBlock ==
  (Done /\ input_source.type = "list") =>
    \A i \in 1..Len(lines) :
      (WholeBlock(lines[i]) /\ ~InBlock(lines, i)) =>
        LET other == extract([Args EXCEPT !.input_source.value = SplitAt(lines, i)], fs)
        IN  outcome = other.outcome /\ result = other.result

(***************************************************************************)
(* C16  Serializer rendering                                               *)
(***************************************************************************)
\* n copies of c, none when n is negative
Copies(c, n) == [i \in 1..(IF n > 0 THEN n ELSE 0) |-> c]

\* the rendering of the entry e with the pad given
Rendered(e, pad) ==
  IF \E i \in 1..Len(e.v) : e.v[i] = NL
    THEN e.k \o <<":">> \o pad \o QQQ \o <<NL>> \o e.v \o <<NL>> \o QQQ
  ELSE IF Len(e.k) >= Len(CommentPrefix)
          /\ SubSeq(e.k, 1, Len(CommentPrefix)) = CommentPrefix
    THEN <<"#">> \o pad \o e.v
  ELSE e.k \o <<":">> \o pad \o e.v

\* the entries write emits: all of them in stored order, or the one of kv
Emitted(d, kv) ==
  IF kv = None THEN d ELSE SelectSeq(d, LAMBDA e : e.k = kv)

\* the texts of ts one after the other
RECURSIVE Concat(_)
Concat(ts) == IF ts = <<>> THEN <<>> ELSE Head(ts) \o Concat(Tail(ts))

\* what the claim says write emits for d
ExpectedText(d, kv, l, s) ==
  Concat([i \in 1..Len(Emitted(d, kv)) |->
            Rendered(Emitted(d, kv)[i], Copies(" ", s)) \o Copies(NL, l)])

SoleDelimiter(l) == strip(l) = QQQ

\* l is the delimiter at the start of the line, with optional whitespace after it
DelimiterFirst(l) ==
  /\ Len(l) >= 3 /\ SubSeq(l, 1, 3) = QQQ
  /\ \A i \in 4..Len(l) : l[i] \in Whitespace

\* the line read ends the block: the builder goes on in Normal mode, or comes
\* to its end here (keyvar found)
EndsBlock == pc' = "done" \/ (pc' = "loop" /\ idx' = idx + 1 /\ ~multiline')

\* the line read is a continuation: it is appended and the mode stays
Continues ==
  /\ pc' = "loop" /\ idx' = idx + 1 /\ multiline'
  /\ current_var_value' = current_var_value \o <<NL>> \o lines[idx]
  /\ variables' = variables

\* C18 as stated: in InMultiline mode a line that is the delimiter alone, with
\* optional whitespace before and/or after it, ends the block; every other
\* line is a continuation and leaves the mode unchanged.
C18_Surrounded ==
  [][(InLoop /\ multiline) =>
       IF SoleDelimiter(lines[idx]) THEN EndsBlock ELSE Continues]_vars

\* C18 amended: in InMultiline mode a line that starts with the delimiter and
\* holds nothing else but optional whitespace after it ends the block; every
\* other line, the delimiter with whitespace before it included, is a
\* continuation and leaves the mode unchanged.
C18_TrailingOnly ==
  [][(InLoop /\ multiline) =>
       IF DelimiterFirst(lines[idx]) THEN EndsBlock ELSE Continues]_vars

\* a block whose body is the delimiter with a space before it has been ended
\* by the delimiter with a space after it
C18_Witness ==
  /\ pc = "loop" /\ ~multiline /\ idx = 4
  /\ Opens(lines[1])
  /\ lines[2] = <<" ">> \o QQQ
  /\ lines[3] = QQQ \o <<" ">>
  /\ Get(variables, key_value_pattern(lines[1]).name) = QQQ

(***************************************************************************)
(* C19  Blank lines                                                        *)
(***************************************************************************)
\* an empty line and a whitespace-only line
BlankLines == {<<>>, <<" ">>}

\* ls with the line b inserted before line p
InsertAt(ls, p, b) == SubSeq(ls, 1, p - 1) \o <<b>> \o SubSeq(ls, p, Len(ls))

\* the call of extract on the lines ls instead, as a list or as the file
OnLines(ls) ==
  IF input_source.type = "list"
    THEN extract([Args EXCEPT !.input_source.value = ls], fs)
    ELSE extract(Args, File(FileText(ls)))

\* how the call r has ended, and the mapping it has returned
Ending(r) == <<r.outcome, r.result>>

\* the positions of ls, its end included, where the builder is in Normal mode
NormalPositions(ls) == {p \in 1..(Len(ls) + 1) : ~InBlock(ls, p)}

\* some line of ls stores an entry: a comment (not suppressed) or a complete
\* key/value declaration
StoresEntry(ls) ==
  \E i \in 1..Len(ls) :
    /\ ~IsBlank(ls[i])
    /\ IF IsComment(ls[i]) THEN ~no_comments
       ELSE IsKeyValue(ls[i]) /\ DeclEnd(ls, i) <= Len(ls)
    /\ ~InBlock(ls, i)

\* the input is a file in which no entry is parsed, returned whole as free text
WholeFileAsFreeText ==
  /\ input_source.type = "str" /\ ~strict /\ keyvar = None
  /\ ~StoresEntry(lines)

\* a blank line inserted at a Normal-mode position changes neither how the
\* call ends nor the mapping returned
BlankInsertionsNeutral ==
  \A p \in NormalPositions(lines), b \in BlankLines :
    Ending(OnLines(InsertAt(lines, p, b))) = <<outcome, result>>

\* a list or a readable file whose lines, one line added, stay within MaxLines
Insertable ==
  /\ input_source.type \in {"list", "str"}
  /\ fs.exists = (input_source.type = "str")
  /\ Len(lines) < MaxLines

\* C19 as stated: for every input, a blank line inserted (or removed) where
\* the builder is in Normal mode never changes the mapping returned.
C19_BlankInsignificant ==
  (Done /\ Insertable) => BlankInsertionsNeutral

\* C19 amended: the same, except for a file in which no entry is parsed
\* (non-strict, no keyvar), whose whole content is the free text.
C19_BlankBetweenEntries ==
  (Done /\ Insertable /\ ~WholeFileAsFreeText) => BlankInsertionsNeutral

\* a mapping with a comment and free text has been returned, and blank lines
\* can be inserted at three places without changing it
C19_Witness ==
  /\ Returned /\ keyvar = None /\ Insertable /\ Len(lines) = 2
  /\ Cardinality(NormalPositions(lines)) = 3
  /\ Has(result, CommentKey(1)) /\ Has(result, freetext_name)
  /\ BlankInsertionsNeutral

(***************************************************************************)
(* C20  Free-text merge                                                    *)
(***************************************************************************)
NoKeyAtom == "No variable key in '"

\* the unstructured lines of ls, in input order, the delimiter escaped
EscapedUnstructured(ls) ==
  LET at == SelectSeq([i \in 1..Len(ls) |-> i], LAMBDA i : Malformed(ls, i))
  IN  [n \in 1..Len(at) |-> replace(ls[at[n]], QQQ, EscapedQQQ)]

\* the value the input declares under key, trimmed, if it declares one
PreExisting(key) ==
  IF CompleteDeclarations(lines, key) = {} THEN <<>>
  ELSE <<DeclValue(lines, Max(CompleteDeclarations(lines, key)))>>

\* the pre-existing values first and second, then the unstructured lines
Merged(first, second) ==
  strip(JoinNL(PreExisting(first) \o PreExisting(second)
               \o <<strip(JoinNL(EscapedUnstructured(lines)))>>))

\* C20: in non-strict mode without keyvar, when the input has unstructured
\* lines, the mapping returned holds under the free-text key the trimmed
\* values declared under _TEXT_ and under the free-text key followed by the
\* unstructured lines, escaped and joined by newlines; _TEXT_ is removed and
\* one diagnostic is recorded per unstructured line.
C20_FreeTextMerge ==
  (Done /\ ~strict /\ keyvar = None
   /\ input_source.type \in {"list", "str"}
   /\ (freetext_name = DefaultFreetextName \/ FreetextNamePattern(freetext_name))
   /\ \E i \in 1..Len(lines) : Malformed(lines, i)) =>
    /\ outcome = "return"
    /\ Has(result, freetext_name)
    /\ Get(result, freetext_name)
         \in {Merged(TextKey, freetext_name), Merged(freetext_name, TextKey)}
    /\ ~Has(result, TextKey)
    /\ Has(result, ErrorsKey)
    /\ Count(Get(result, ErrorsKey), NoKeyAtom) = Len(EscapedUnstructured(lines))

(***************************************************************************)
(* C21  Comments under an allow-list                                       *)
(***************************************************************************)
\* keyvar is a synthetic comment key _COMMENT_n, n = 1, 2, ...
KeyvarIsCommentKey ==
  \E n \in 1..(Len(lines) + 1) : keyvar = CommentKey(n)

\* the comment line of the lines that takes the number of keyvar, if any
RequestedComment ==
  {i \in CommentLines(lines, Len(lines)) :
     keyvar = CommentKey(Cardinality(CommentLines(lines, i)))}

\* no key/value line declares keyvar
KeyvarNotDeclared == Declarations(lines, keyvar) = {}

\* C21 as stated: with keyvar set to a synthetic comment key that no
\* key/value line declares, comment lines are discarded: nothing is stored
\* for them and in non-strict mode the empty mapping is returned (key not
\* found), never a comment's text.
C21_CommentsSkipped ==
  (keyvar # None /\ KeyvarIsCommentKey /\ KeyvarNotDeclared) =>
    /\ pc = "loop" => ~Has(variables, keyvar)
    /\ (Done /\ ~strict /\ StoresEntry(lines)) =>
         (outcome = "return" /\ result = <<>>)

\* C21 amended: with keyvar set, comment lines are stored as without it unless
\* no_comments is set; a call with keyvar=_COMMENT_n that no key/value line
\* declares reads the whole input and returns the text of the n-th comment
\* line when there is one, unless strict mode aborts at another line; when
\* there is none, or with no_comments, no mapping but the empty one is
\* returned.
C21_CommentsReturned ==
  (Done /\ keyvar # None /\ KeyvarIsCommentKey /\ KeyvarNotDeclared) =>
    IF ~no_comments /\ RequestedComment # {}
      THEN \/ strict /\ outcome = "exit" /\ idx <= Len(lines)
           \/ /\ outcome = "return"
              /\ \E i \in RequestedComment :
                   result = <<[k |-> keyvar, v |-> CommentText(lines[i])]>>
              /\ idx = Len(lines) + 1
      ELSE outcome = "return" => result = <<>>

\* the text of the first comment line, which other lines follow, has been
\* returned for keyvar=_COMMENT_1
C21_Witness ==
  /\ Returned /\ keyvar = CommentKey(1) /\ KeyvarNotDeclared /\ ~no_comments
  /\ Len(lines) = 3 /\ 1 \in RequestedComment
  /\ result = <<[k |-> keyvar, v |-> CommentText(lines[1])]>>

(***************************************************************************)
(* C22  Early exit                                                         *)
(***************************************************************************)
\* the same call without keyvar
WithoutKeyvar == extract([Args EXCEPT !.keyvar = None], fs)

\* C22: when non-strict extract with keyvar=K returns {K: v}, v is the value
\* that non-strict extract without keyvar returns under K for the same input.
C22_EarlyExitSameValue ==
  (Returned /\ ~strict /\ keyvar # None /\ delvars = <<>>
   /\ Len(result) = 1 /\ result[1].k = keyvar) =>
    /\ WithoutKeyvar.outcome = "return"
    /\ Has(WithoutKeyvar.result, keyvar)
    /\ Get(WithoutKeyvar.result, keyvar) = result[1].v

(***************************************************************************)
(* C23  No silent overwrite                                                *)
(***************************************************************************)
\* the step at the current line assigns a value to key: the line ends the
\* block of key, is a comment line stored under key, or is a single-line
\* key/value line of key
Assigns(key) ==
  IF multiline THEN IsTerminator(lines[idx]) /\ key = current_var_name
  ELSE IF IsBlank(lines[idx]) THEN FALSE
  ELSE IF IsComment(lines[idx])
    THEN ~no_comments /\ key = CommentKey(comment_n + 1)
  ELSE /\ IsKeyValue(lines[idx])
       /\ ~Opens(lines[idx])
       /\ key = strip(key_value_pattern(lines[idx]).name)

\* the step has recorded a duplicate-key diagnostic for key, or has aborted
DuplicateReported(key) ==
  IF strict THEN pc' = "done" /\ outcome' = "exit"
  ELSE contains(ERRORS', DuplicateMsg(key, source))

\* C23: a step of the loop that assigns a value to a key already present in
\* the mapping records a duplicate-key diagnostic for it in non-strict mode and
\* aborts the parse in strict mode.
C23_NoSilentOverwrite ==
  [][\A key \in Keys(variables) :
       (InLoop /\ Assigns(key)) => DuplicateReported(key)]_vars

====
